---- MODULE Spec2Model ----
(***************************************************************************)
(* The request-admission and credential core of the service.               *)
(*                                                                         *)
(* Spec: the in-memory rate limiter of app/core/rate_limiter.py (the       *)
(* shared map `requests`, its asyncio lock, the coroutines                 *)
(* check_rate_limit and cleanup_old_entries) and the login route of        *)
(* app/api/v1/auth.py behind it, run by one asyncio event loop.  A         *)
(* coroutine keeps the loop until it suspends; none of them awaits         *)
(* anything but the lock, so `running` names the coroutine that holds the  *)
(* loop.                                                                   *)
(*                                                                         *)
(* TokenSpec and PasswordSpec: the operations of app/core/security.py,     *)
(* which keep no state, applied to inputs drawn from small sets.           *)
(*                                                                         *)
(* Time is in whole seconds.                                               *)
(***************************************************************************)
EXTENDS Integers, Sequences, FiniteSets, TLC

\* ------------------------------------------------------------------ bounds
NProcs == 2        \* request coroutines that can be pending at once
MaxCalls == 3      \* check_rate_limit calls issued in one behaviour
MaxTicks == 3      \* advances of the clock in one behaviour

\* --------------------------------------------------------------- constants
HTTP_429_TOO_MANY_REQUESTS == 429
SecondsPerHour == 3600

\* ------------------------------------------------------------------ inputs
NoClient == "None"                      \* request.client is None
Hosts == {"1.2.3.4"}                    \* request.client.host otherwise
Callers == Hosts \cup {NoClient}
Routes == {"/login", "/items"}          \* request.url.path
\* check_rate_limit takes max_requests and window_seconds as arguments; the
\* two policies in use are a strict one on the login route and a lenient one
\* (more requests, over a shorter window) elsewhere.  The clock of the model
\* advances in steps of half an hour, and the windows are chosen to match.
AuthPolicy == [max_requests |-> 1, window_seconds |-> 3600]
ApiPolicy == [max_requests |-> 2, window_seconds |-> 1800]
Policies == {AuthPolicy, ApiPolicy}
\* Depends(rate_limit_auth) guards /login; rate_limit_api the other routes
PolicyFor(path) == IF path = "/login" THEN AuthPolicy ELSE ApiPolicy
Requests == [client : Callers, path : Routes]
MaxAgeHours == {1}                      \* max_age_hours of a sweep
TickSteps == {1800}                     \* seconds between two clock readings

Procs == {<<"request", i>> : i \in 1..NProcs}
Sweeper == <<"cleanup", 0>>
Nobody == <<"none", 0>>

VARIABLES
    requests,       \* RateLimiter.requests: ip -> list of <<timestamp, endpoint>>
    lock,           \* RateLimiter.lock: the coroutine holding it, or Nobody
    now,            \* the wall clock read by datetime.now()
    running,        \* the coroutine the event loop is executing, or Nobody
    pc,             \* position of each request coroutine
    request,        \* argument `request` of each call
    policy,         \* arguments max_requests, window_seconds of each call
    client_ip,      \* local client_ip
    endpoint,       \* local endpoint
    current_time,   \* local current_time
    sweep_pc,       \* position of the cleanup_old_entries coroutine
    cutoff_time,    \* local cutoff_time of cleanup_old_entries
    history,        \* per caller, the decided calls in the order decided
    before,         \* inside a sweep, the map as the loop found it
    response,       \* what the login endpoint answers the running request
    environ,        \* os.environ: the value of JWT_SECRET, if set
    issued,         \* the latest call of create_access_token and its result
    validated,      \* the latest call of get_current_user and its result
    stored,         \* the hashes made by get_password_hash (the user store)
    verified        \* the latest call of verify_password and its result

\* the state of the rate limiter
limiterVars == <<requests, lock, running, pc, request, policy, client_ip,
                 endpoint, current_time, sweep_pc, cutoff_time, history,
                 before, response>>

\* the observations of the token operations
tokenVars == <<issued, validated>>

\* the observations of the password operations
passwordVars == <<stored, verified>>

vars == <<requests, lock, now, running, pc, request, policy, client_ip,
          endpoint, current_time, sweep_pc, cutoff_time, history, before,
          response, environ, issued, validated, stored, verified>>

\* ----------------------------------------------------------------- helpers
NoRequest == [client |-> "", path |-> ""]
NoPolicy == [max_requests |-> 0, window_seconds |-> 0]
NoException == [status_code |-> 0, max_requests |-> 0, window_seconds |-> 0]

\* defaultdict(list): reading a missing key yields (and stores) an empty list
Get(reqs, ip) == IF ip \in DOMAIN reqs THEN reqs[ip] ELSE <<>>

\* mutant: the assignment writes the list to every key of the map
Put_EveryKey(reqs, ip, list) == [k \in (DOMAIN reqs) \cup {ip} |-> list]

Put(reqs, ip, list) ==
    [k \in (DOMAIN reqs) \cup {ip} |-> IF k = ip THEN list ELSE reqs[k]]

Delete(reqs, ip) == [k \in (DOMAIN reqs) \ {ip} |-> reqs[k]]

\* mutant: an unavailable address becomes an empty client identifier
ClientIp_Blank(req) == IF req.client = NoClient THEN "" ELSE req.client

\* request.client.host if request.client else "unknown"
ClientIp(req) == IF req.client = NoClient THEN "unknown" ELSE req.client

\* [(ts, ep) for ts, ep in list if ts > cutoff]
Newer(list, cutoff) ==
    LET keep(e) == e[1] > cutoff IN SelectSeq(list, keep)

\* mutant: the count is taken over all routes of the client
EndpointRequests_AllRoutes(list, ep) == list

\* [ts for ts, ep in list if ep == endpoint]
EndpointRequests(list, ep) ==
    LET same(e) == e[2] = ep IN SelectSeq(list, same)

\* HTTPException(status_code=429, detail=f"... {max_requests} ... {window_seconds} ...")
HTTPException(max, win) ==
    [status_code |-> HTTP_429_TOO_MANY_REQUESTS,
     max_requests |-> max, window_seconds |-> win]

\* timedelta(hours=h) in seconds
Hours(h) == h * SecondsPerHour

\* the latest time the clock reaches
MaxTime == MaxTicks * 1800

Decided == LET n[S \in SUBSET Callers] ==
                   IF S = {} THEN 0
                   ELSE LET c == CHOOSE x \in S : TRUE
                        IN Len(history[c]) + n[S \ {c}]
           IN n[Callers]

InFlight == {p \in Procs : pc[p] # "idle"}

Issued == Decided + Cardinality(InFlight)

\* -------------------------------------------------------------------- Init
InitRateLimiter ==
    /\ requests = << >>
    /\ lock = Nobody
    /\ now = 0
    /\ running = Nobody
    /\ pc = [p \in Procs |-> "idle"]
    /\ request = [p \in Procs |-> NoRequest]
    /\ policy = [p \in Procs |-> NoPolicy]
    /\ client_ip = [p \in Procs |-> ""]
    /\ endpoint = [p \in Procs |-> ""]
    /\ current_time = [p \in Procs |-> 0]
    /\ sweep_pc = "idle"
    /\ cutoff_time = 0
    /\ history = [c \in Callers |-> <<>>]
    /\ before = << >>
    /\ response = <<>>

\* no credential operation has been called yet
InitCredentials ==
    /\ issued = <<>>
    /\ validated = <<>>
    /\ stored = {}
    /\ verified = <<>>

\* the service starts without JWT_SECRET in its environment
Init ==
    /\ InitRateLimiter
    /\ InitCredentials
    /\ environ = <<>>

\* ------------------------------------------------------- check_rate_limit
\* the coroutine objects are interchangeable: a new call takes the first free one
FirstIdle(p) ==
    /\ pc[p] = "idle"
    /\ \A q \in Procs : q[2] < p[2] => pc[q] # "idle"

\* A request reaches its route's dependency, which creates the call
\* check_rate_limit(request, max_requests, window_seconds).
Submit(p, req) ==
    /\ running = Nobody
    /\ FirstIdle(p)
    /\ Issued < MaxCalls
    /\ pc' = [pc EXCEPT ![p] = "ready"]
    /\ request' = [request EXCEPT ![p] = req]
    /\ policy' = [policy EXCEPT ![p] = PolicyFor(req.path)]
    /\ UNCHANGED <<response, environ, tokenVars, passwordVars>>
    /\ UNCHANGED <<requests, lock, now, running, client_ip, endpoint,
                   current_time, sweep_pc, cutoff_time, history, before>>

\* The loop runs the call: client_ip, endpoint and current_time are read.
Start(p) ==
    /\ running = Nobody
    /\ pc[p] = "ready"
    /\ running' = p
    /\ client_ip' = [client_ip EXCEPT ![p] = ClientIp(request[p])]
    /\ endpoint' = [endpoint EXCEPT ![p] = request[p].path]
    /\ current_time' = [current_time EXCEPT ![p] = now]
    /\ pc' = [pc EXCEPT ![p] = "started"]
    /\ UNCHANGED <<response, environ, tokenVars, passwordVars>>
    /\ UNCHANGED <<requests, lock, now, request, policy, sweep_pc,
                   cutoff_time, history, before>>

\* mutant: the critical section is entered without taking the lock
Acquired_NotTaken(c) == Nobody

\* the lock once coroutine c has acquired it
Acquired(c) == c

\* async with self.lock
Acquire(p) ==
    /\ running = p
    /\ pc[p] = "started"
    /\ lock = Nobody
    /\ lock' = Acquired(p)
    /\ pc' = [pc EXCEPT ![p] = "locked"]
    /\ UNCHANGED <<response, environ, tokenVars, passwordVars>>
    /\ UNCHANGED <<requests, now, running, request, policy, client_ip,
                   endpoint, current_time, sweep_pc, cutoff_time,
                   history, before>>

\* mutant: fixed buckets, the cutoff is the start of the current bucket
Cutoff_Bucket(p) ==
    (current_time[p] \div policy[p].window_seconds)
        * policy[p].window_seconds - 1

\* cutoff_time = current_time - timedelta(seconds=window_seconds)
Cutoff(p) == current_time[p] - policy[p].window_seconds

\* mutant: nothing is ever discarded
Pruned_Never(p) == Get(requests, client_ip[p])

\* mutant: entries stamped exactly at the cutoff are kept (ts >= cutoff_time)
Pruned_Closed(p) ==
    LET keep(e) == e[1] >= current_time[p] - policy[p].window_seconds
    IN  SelectSeq(Get(requests, client_ip[p]), keep)

\* [(ts, ep) for ts, ep in self.requests[client_ip] if ts > cutoff_time]
Pruned(p) == Newer(Get(requests, client_ip[p]), Cutoff(p))

\* self.requests[client_ip] = [...]
Prune(p) ==
    /\ running = p
    /\ pc[p] = "locked"
    /\ requests' = Put(requests, client_ip[p], Pruned(p))
    /\ pc' = [pc EXCEPT ![p] = "pruned"]
    /\ UNCHANGED <<response, environ, tokenVars, passwordVars>>
    /\ UNCHANGED <<lock, now, running, request, policy, client_ip, endpoint,
                   current_time, sweep_pc, cutoff_time, history, before>>

\* mutant: the comparison is > instead of >=
OverLimit_Off(p) ==
    Len(EndpointRequests(Get(requests, client_ip[p]), endpoint[p]))
        > policy[p].max_requests

\* mutant: entries stamped at the call's own time are not counted
OverLimit_EarlierOnly(p) ==
    LET earlier(e) == e[1] < current_time[p]
    IN  Len(SelectSeq(EndpointRequests(Get(requests, client_ip[p]),
                                       endpoint[p]), earlier))
            >= policy[p].max_requests

\* len(endpoint_requests) >= max_requests
OverLimit(p) ==
    Len(EndpointRequests(Get(requests, client_ip[p]), endpoint[p]))
        >= policy[p].max_requests

\* another call of the same client for the same route is pending
Contended(p) ==
    \E q \in Procs \ {p} : pc[q] = "ready" /\ request[q] = request[p]

\* what the caller of the call gets: None, or the exception raised
Entry(p, ok, exc) ==
    [path |-> request[p].path,
     max_requests |-> policy[p].max_requests,
     window_seconds |-> policy[p].window_seconds,
     t |-> current_time[p],
     ok |-> ok,
     raised |-> exc,
     contended |-> Contended(p)]

Log(p, ok, exc) ==
    history' = [history EXCEPT
                   ![request[p].client] = Append(@, Entry(p, ok, exc))]

\* mutant: the coroutine ends without releasing the lock
Leave_Held(p) ==
    /\ lock' = lock
    /\ running' = Nobody
    /\ pc' = [pc EXCEPT ![p] = "idle"]
    /\ request' = [request EXCEPT ![p] = NoRequest]
    /\ policy' = [policy EXCEPT ![p] = NoPolicy]
    /\ client_ip' = [client_ip EXCEPT ![p] = ""]
    /\ endpoint' = [endpoint EXCEPT ![p] = ""]
    /\ current_time' = [current_time EXCEPT ![p] = 0]

\* the coroutine has ended: its frame is gone
Leave(p) ==
    /\ lock' = Nobody
    /\ running' = Nobody
    /\ pc' = [pc EXCEPT ![p] = "idle"]
    /\ request' = [request EXCEPT ![p] = NoRequest]
    /\ policy' = [policy EXCEPT ![p] = NoPolicy]
    /\ client_ip' = [client_ip EXCEPT ![p] = ""]
    /\ endpoint' = [endpoint EXCEPT ![p] = ""]
    /\ current_time' = [current_time EXCEPT ![p] = 0]

\* mutant: the endpoint of the login route runs whatever the dependency did
Handled_Always(p, ok) == request[p].path = "/login"

\* the endpoint function of the route runs once its dependencies have
\* returned without an exception; the login route is the one with an
\* endpoint that issues tokens
Handled(p, ok) == ok /\ request[p].path = "/login"

\* check_rate_limit has ended and the request goes on to its endpoint
Proceed(p) ==
    /\ lock' = Nobody
    /\ pc' = [pc EXCEPT ![p] = "endpoint"]
    /\ policy' = [policy EXCEPT ![p] = NoPolicy]
    /\ client_ip' = [client_ip EXCEPT ![p] = ""]
    /\ endpoint' = [endpoint EXCEPT ![p] = ""]
    /\ current_time' = [current_time EXCEPT ![p] = 0]
    /\ UNCHANGED <<running, request>>

\* mutant: the exception reports the defaults of the signature
Raised_Defaults(p) ==
    HTTPException(AuthPolicy.max_requests, ApiPolicy.window_seconds)

\* the exception raised at the limit
Raised(p) == HTTPException(policy[p].max_requests, policy[p].window_seconds)

\* mutant: the new entry is put at the head of the list
Appended_AtHead(p) ==
    Put(requests, client_ip[p],
        <<<<current_time[p], endpoint[p]>>>> \o Get(requests, client_ip[p]))

\* self.requests[client_ip].append((current_time, endpoint))
Appended(p) ==
    Put(requests, client_ip[p],
        Append(Get(requests, client_ip[p]), <<current_time[p], endpoint[p]>>))

\* mutant: the rejected attempt is recorded too
AfterReject_Recorded(p) == Appended(p)

\* mutant: a rejection clears the record of the client
AfterReject_Cleared(p) == Put(requests, client_ip[p], <<>>)

\* the map after a rejected call: nothing is appended
AfterReject(p) == requests

\* raise HTTPException(...): the exception leaves the with block, which
\* releases the lock, and ends the coroutine.
Reject(p) ==
    /\ running = p
    /\ pc[p] = "pruned"
    /\ OverLimit(p)
    /\ requests' = AfterReject(p)
    /\ Log(p, FALSE, Raised(p))
    /\ IF Handled(p, FALSE) THEN Proceed(p) ELSE Leave(p)
    /\ UNCHANGED <<response, environ, tokenVars, passwordVars>>
    /\ UNCHANGED <<now, sweep_pc, cutoff_time, before>>

\* the call appends its entry, leaves the with block and returns None;
\* on the login route the request then reaches its endpoint
Admit(p) ==
    /\ running = p
    /\ pc[p] = "pruned"
    /\ ~OverLimit(p)
    /\ requests' = Appended(p)
    /\ Log(p, TRUE, NoException)
    /\ IF Handled(p, TRUE) THEN Proceed(p) ELSE Leave(p)
    /\ UNCHANGED <<response, environ, tokenVars, passwordVars>>
    /\ UNCHANGED <<now, sweep_pc, cutoff_time, before>>

\* ---------------------------------------------------- cleanup_old_entries
\* cutoff_time = datetime.now() - timedelta(hours=max_age_hours)
SweepStart(h) ==
    /\ running = Nobody
    /\ sweep_pc = "idle"
    /\ running' = Sweeper
    /\ cutoff_time' = now - Hours(h)
    /\ sweep_pc' = "started"
    /\ UNCHANGED <<response, environ, tokenVars, passwordVars>>
    /\ UNCHANGED <<requests, lock, now, pc, request, policy, client_ip,
                   endpoint, current_time, history, before>>

SweepAcquire ==
    /\ running = Sweeper
    /\ sweep_pc = "started"
    /\ lock = Nobody
    /\ lock' = Acquired(Sweeper)
    /\ sweep_pc' = "locked"
    /\ UNCHANGED <<response, environ, tokenVars, passwordVars>>
    /\ UNCHANGED <<requests, now, running, pc, request, policy, client_ip,
                   endpoint, current_time, cutoff_time, history, before>>

\* mutant: a record left empty is not deleted
SweepIp_KeepEmpty(reqs, ip, cutoff) == Put(reqs, ip, Newer(reqs[ip], cutoff))

\* mutant: the sweep deletes every record it visits
SweepIp_DeleteAll(reqs, ip, cutoff) == Delete(reqs, ip)

\* one iteration of the for loop, for key ip
SweepIp(reqs, ip, cutoff) ==
    IF Newer(reqs[ip], cutoff) = <<>>
    THEN Delete(reqs, ip)
    ELSE Put(reqs, ip, Newer(reqs[ip], cutoff))

\* for ip in list(self.requests.keys()): ...
Swept(reqs, cutoff) ==
    LET loop[S \in SUBSET (DOMAIN reqs)] ==
            IF S = {} THEN reqs
            ELSE LET ip == CHOOSE k \in S : TRUE
                 IN SweepIp(loop[S \ {ip}], ip, cutoff)
    IN loop[DOMAIN reqs]

\* the for loop runs to its end
SweepLoop ==
    /\ running = Sweeper
    /\ sweep_pc = "locked"
    /\ requests' = Swept(requests, cutoff_time)
    /\ before' = requests
    /\ sweep_pc' = "swept"
    /\ UNCHANGED <<response, environ, tokenVars, passwordVars>>
    /\ UNCHANGED <<lock, now, running, pc, request, policy, client_ip,
                   endpoint, current_time, cutoff_time, history>>

\* the with block is left: the lock is released and the coroutine returns
SweepRelease ==
    /\ running = Sweeper
    /\ sweep_pc = "swept"
    /\ lock' = Nobody
    /\ running' = Nobody
    /\ sweep_pc' = "idle"
    /\ cutoff_time' = 0
    /\ before' = << >>
    /\ UNCHANGED <<response, environ, tokenVars, passwordVars>>
    /\ UNCHANGED <<requests, now, pc, request, policy, client_ip, endpoint,
                   current_time, history>>

\* ------------------------------------------------------------------- clock
\* A step of the clock is far longer than a run of a coroutine, which never
\* suspends: the clock is seen to advance between runs.
Tick(d) ==
    /\ running = Nobody
    /\ now + d <= MaxTime
    /\ now' = now + d
    /\ UNCHANGED <<response, environ, tokenVars, passwordVars>>
    /\ UNCHANGED <<requests, lock, running, pc, request, policy, client_ip,
                   endpoint, current_time, sweep_pc, cutoff_time,
                   history, before>>

\* ================================================= app/core/security.py
\* The credential operations keep no state of their own: they read the
\* clock and the settings.  Their calls are observed in `issued`,
\* `validated`, `stored` and `verified`.  jwt.encode, jwt.decode (python-jose)
\* and CryptContext (passlib) are libraries; they are modelled by what they
\* compute, with an ideal MAC and ideal hashes (distinct inputs never
\* collide).

\* ------------------------------------------------------------------ bounds
MaxClock == 3      \* seconds the clock advances in a behaviour of TokenSpec
MaxHashes == 2     \* hashes kept by the user store in PasswordSpec

\* --------------------------------------------------------------- constants
HTTP_401_UNAUTHORIZED == 401
DefaultExpireMinutes == 15

\* ------------------------------------------------------------------ inputs
DefaultSecret == "your-secret-key"
\* os.environ: JWT_SECRET unset, set to the empty string, or set to a key
Environment == {<<>>, <<"">>, <<"k1">>}
ForeignSecret == "k2"                   \* the key of another issuer
\* the claim mappings passed as `data`: a subject only; a subject with a
\* role and an expiration of the caller's; no subject
ClaimSets ==
    {[sub |-> "u1"],
     [sub |-> "u1", role |-> "admin", exp |-> 1],
     [role |-> "admin"]}
\* Optional[timedelta]: <<>> is None, <<n>> is timedelta(seconds=n)
Deltas == {<<>>, <<0>>, <<1>>, <<2>>}
Passwords == {"pw1", "pw2", "pw3"}
Salts == {"saltA", "saltB"}             \* the salts bcrypt can draw

\* ---------------------------------------------------------------- settings
\* JWT_SECRET: str = os.getenv("JWT_SECRET", "your-secret-key")
Getenv(env, default) == IF env = <<>> THEN default ELSE env[1]

JWT_SECRET == Getenv(environ, DefaultSecret)

\* ------------------------------------------------------------------ tokens
\* mutant: an expiration already in the mapping is kept
Update_KeepExisting(d, k, v) ==
    [n \in (DOMAIN d) \cup {k} |-> IF n \in DOMAIN d THEN d[n] ELSE v]

\* dict.update({k: v})
Update(d, k, v) ==
    [n \in (DOMAIN d) \cup {k} |-> IF n = k THEN v ELSE d[n]]

\* the mapping without key k
Without(d, k) == [n \in (DOMAIN d) \ {k} |-> d[n]]

\* HMAC-SHA256 of the encoded claims under key
Sign(claims, key) == <<"HS256", key, claims>>

\* jwt.encode(claims, key, algorithm): header.payload.signature
Encode(claims, key) ==
    [wellformed |-> TRUE, payload |-> claims, signature |-> Sign(claims, key)]

\* a string that is not header.payload.signature
Malformed == [wellformed |-> FALSE, payload |-> <<>>, signature |-> <<>>]

\* bool(expires_delta): None and timedelta(0) are falsy
Truthy(delta) == delta # <<>> /\ delta[1] # 0

\* expire = datetime.utcnow() + (expires_delta or timedelta(minutes=15))
Expire(delta, utcnow) ==
    IF Truthy(delta)
    THEN utcnow + delta[1]
    ELSE utcnow + DefaultExpireMinutes * 60

\* create_access_token(data, expires_delta), called at utcnow under key
create_access_token(data, delta, utcnow, key) ==
    Encode(Update(data, "exp", Expire(delta, utcnow)), key)

\* mutant: the signature is not verified
Verifies_Unchecked(token, key) == token.wellformed

\* the signature check of jwt.decode
Verifies(token, key) ==
    /\ token.wellformed
    /\ token.signature = Sign(token.payload, key)

\* the expiration check of jwt.decode: absent exp is not checked, and a
\* token is expired when exp < now
Expired(claims, utcnow) == "exp" \in DOMAIN claims /\ claims["exp"] < utcnow

\* jwt.decode(token, key, algorithms): the claims, or the JWTError raised
Decode(token, key, utcnow) ==
    IF ~token.wellformed
    THEN [error |-> "JWTError: malformed", claims |-> <<>>]
    ELSE IF ~Verifies(token, key)
    THEN [error |-> "JWTError: signature", claims |-> <<>>]
    ELSE IF Expired(token.payload, utcnow)
    THEN [error |-> "ExpiredSignatureError", claims |-> <<>>]
    ELSE [error |-> "", claims |-> token.payload]

\* HTTPException(401, "Could not validate credentials", WWW-Authenticate)
credentials_exception ==
    [status_code |-> HTTP_401_UNAUTHORIZED,
     detail |-> "Could not validate credentials",
     headers |-> "WWW-Authenticate: Bearer"]

NoError == [status_code |-> 0, detail |-> "", headers |-> ""]

\* mutant: the message of the exception names the check that failed
OnJWTError_Leaky(error) == [credentials_exception EXCEPT !.detail = error]

\* except JWTError: raise credentials_exception
OnJWTError(error) == credentials_exception

\* if user_id is None: raise credentials_exception
OnNoSubject == credentials_exception

\* get_current_user(token) at utcnow: the payload returned or the
\* exception raised
get_current_user(token, key, utcnow) ==
    LET decoded == Decode(token, key, utcnow)
    IN  IF decoded.error # ""
        THEN [ok |-> FALSE, payload |-> <<>>,
              raised |-> OnJWTError(decoded.error)]
        ELSE IF "sub" \notin DOMAIN decoded.claims
        THEN [ok |-> FALSE, payload |-> <<>>, raised |-> OnNoSubject]
        ELSE [ok |-> TRUE, payload |-> decoded.claims, raised |-> NoError]

\* the tokens a caller can present, given the token the service issued:
\* that token; its claims signed by another issuer; its claims altered
\* under the old signature; its claims without exp, signed with the
\* service's key; and a malformed string
Presentable ==
    {Malformed} \cup
    (IF issued = <<>> THEN {}
     ELSE LET token == issued[1].token
          IN  {token,
               Encode(token.payload, ForeignSecret),
               [token EXCEPT !.payload = Update(@, "sub", "u2")],
               Encode(Without(token.payload, "exp"), JWT_SECRET)})

\* a call of create_access_token
Issue(data, delta) ==
    /\ issued' = <<[data |-> data, expires_delta |-> delta, at |-> now,
                    key |-> JWT_SECRET,
                    token |-> create_access_token(data, delta, now,
                                                  JWT_SECRET)]>>
    /\ UNCHANGED <<limiterVars, now, environ, validated, passwordVars>>

\* a call of get_current_user
Validate(token) ==
    /\ validated' = <<[token |-> token, at |-> now,
                       result |-> get_current_user(token, JWT_SECRET, now)]>>
    /\ UNCHANGED <<limiterVars, now, environ, issued, passwordVars>>

\* a second passes
Pass ==
    /\ now < MaxClock
    /\ now' = now + 1
    /\ UNCHANGED <<limiterVars, environ, tokenVars, passwordVars>>

TokenInit ==
    /\ InitRateLimiter
    /\ InitCredentials
    /\ environ \in Environment

TokenNext ==
    \/ \E data \in ClaimSets, delta \in Deltas : Issue(data, delta)
    \/ \E token \in Presentable : Validate(token)
    \/ Pass

TokenSpec == TokenInit /\ [][TokenNext]_vars

\* --------------------------------------------------------------- passwords
\* hashlib.sha256(password.encode("utf-8")).hexdigest()
Sha256Hex(password) == "sha256(" \o password \o ")"

\* pwd_context.hash(secret) with the salt drawn: "$2b$<cost>$<salt><checksum>"
BcryptHash(secret, salt) ==
    [scheme |-> "bcrypt", salt |-> salt, checksum |-> <<"bcrypt", salt, secret>>]

\* pwd_context.verify(secret, hash): hashes secret with the salt of hash
BcryptVerify(secret, hash) ==
    hash.scheme = "bcrypt" /\ BcryptHash(secret, hash.salt) = hash

\* get_password_hash(password), bcrypt drawing salt
get_password_hash(password, salt) == BcryptHash(Sha256Hex(password), salt)

\* mutant: the password is verified without the digest stage
verify_password_NoDigest(plain_password, hashed_password) ==
    BcryptVerify(plain_password, hashed_password)

\* verify_password(plain_password, hashed_password)
verify_password(plain_password, hashed_password) ==
    BcryptVerify(Sha256Hex(plain_password), hashed_password)

\* a call of get_password_hash; the user store keeps the hash
HashPassword(password, salt) ==
    /\ Cardinality(stored) < MaxHashes
    /\ stored' = stored \cup
           {[password |-> password, salt |-> salt,
             hash |-> get_password_hash(password, salt)]}
    /\ UNCHANGED <<limiterVars, now, environ, tokenVars, verified>>

\* a call of verify_password against a stored hash
VerifyPassword(password, hash) ==
    /\ verified' = <<[plain_password |-> password, hashed_password |-> hash,
                      result |-> verify_password(password, hash)]>>
    /\ UNCHANGED <<limiterVars, now, environ, tokenVars, stored>>

PasswordInit == Init

PasswordNext ==
    \/ \E password \in Passwords, salt \in Salts : HashPassword(password, salt)
    \/ \E password \in Passwords, s \in stored : VerifyPassword(password, s.hash)

PasswordSpec == PasswordInit /\ [][PasswordNext]_vars

\* ================================================= app/api/v1/auth.py
ACCESS_TOKEN_EXPIRE_MINUTES == 2000
HTTP_200_OK == 200

\* LoginRequest: email is a valid address, password any string
LoginData ==
    {[email |-> "user@example.com", password |-> "pw1"],
     [email |-> "user@example.com", password |-> ""]}
UserIds == {"550e8400"}                 \* str(uuid.uuid4())

HTTP_500_INTERNAL_SERVER_ERROR == 500
\* jwt.encode returns, or raises (a key or an algorithm it cannot use)
Faults == {"", "JWTError"}

\* the response the exception handlers of main.py make of an exception
\* that leaves the endpoint: an AppException carries its status code
\* (app_exception_handler), any other exception is answered with 500
\* (general_exception_handler)
ErrorResponse(exception, raised) ==
    [status_code |-> IF exception = "AuthenticationError"
                     THEN HTTP_401_UNAUTHORIZED
                     ELSE HTTP_500_INTERNAL_SERVER_ERROR,
     access_token |-> <<>>,
     raised |-> raised]

\* AuthenticationError("Email and password are required"): 401, no token
RequiredError == ErrorResponse("AuthenticationError", "AuthenticationError")

\* LoginResponse(access_token=..., user=...)
LoginResponse(token) ==
    [status_code |-> HTTP_200_OK, access_token |-> <<token>>, raised |-> ""]

\* except Exception: raise AuthenticationError("An unexpected error ...")
OnException(fault) == ErrorResponse("AuthenticationError", fault)

\* the body of login(login_data), with user_id drawn and jwt.encode
\* returning or raising fault
login(login_data, user_id, utcnow, key, fault) ==
    IF login_data.email = "" \/ login_data.password = ""
    THEN RequiredError
    ELSE IF fault # ""
    THEN OnException(fault)
    ELSE LoginResponse(
             create_access_token([sub |-> user_id],
                                 <<ACCESS_TOKEN_EXPIRE_MINUTES * 60>>,
                                 utcnow, key))

\* the endpoint of the login route runs for request p
Login(p, login_data, user_id, fault) ==
    /\ running = p
    /\ pc[p] = "endpoint"
    /\ response' = <<login(login_data, user_id, now, JWT_SECRET, fault)>>
    /\ pc' = [pc EXCEPT ![p] = "responded"]
    /\ UNCHANGED <<requests, lock, now, running, request, policy, client_ip,
                   endpoint, current_time, sweep_pc, cutoff_time, history,
                   before, environ, tokenVars, passwordVars>>

\* the response is sent and the request is over
Respond(p) ==
    /\ running = p
    /\ pc[p] = "responded"
    /\ response' = <<>>
    /\ running' = Nobody
    /\ pc' = [pc EXCEPT ![p] = "idle"]
    /\ request' = [request EXCEPT ![p] = NoRequest]
    /\ UNCHANGED <<requests, lock, now, policy, client_ip, endpoint,
                   current_time, sweep_pc, cutoff_time, history, before,
                   environ, tokenVars, passwordVars>>

\* ------------------------------------------------------------ the service
Next ==
    \/ \E p \in Procs, req \in Requests : Submit(p, req)
    \/ \E p \in Procs : Start(p)
    \/ \E p \in Procs : Acquire(p)
    \/ \E p \in Procs : Prune(p)
    \/ \E p \in Procs : Reject(p)
    \/ \E p \in Procs : Admit(p)
    \/ \E p \in Procs, login_data \in LoginData, user_id \in UserIds,
          fault \in Faults :
           Login(p, login_data, user_id, fault)
    \/ \E p \in Procs : Respond(p)
    \/ \E h \in MaxAgeHours : SweepStart(h)
    \/ SweepAcquire
    \/ SweepLoop
    \/ SweepRelease
    \/ \E d \in TickSteps : Tick(d)

Spec == Init /\ [][Next]_vars

\* The scheduling of the event loop.  A call that is ready is in the loop's
\* ready queue, which is served in order: the loop runs it, however often
\* other coroutines run in between (strong fairness of Start).  A coroutine
\* that runs executes its next statement (weak fairness of its steps); so
\* does cleanup_old_entries once it has been started.  Nothing obliges
\* clients to send requests, the timer to start a sweep or the clock to be
\* read later.
Fairness ==
    /\ \A p \in Procs :
           /\ SF_vars(Start(p))
           /\ WF_vars(Acquire(p))
           /\ WF_vars(Prune(p))
           /\ WF_vars(Reject(p))
           /\ WF_vars(Admit(p))
           /\ WF_vars(\E login_data \in LoginData, user_id \in UserIds,
                         fault \in Faults :
                          Login(p, login_data, user_id, fault))
           /\ WF_vars(Respond(p))
    /\ WF_vars(SweepAcquire)
    /\ WF_vars(SweepLoop)
    /\ WF_vars(SweepRelease)

\* the service under the scheduling of the event loop
FairSpec == Spec /\ Fairness

\* ============================================================== properties
\* the calls of caller c decided so far, and positions in that sequence
H(c) == history[c]

\* the event loop is between two runs.  `history` changes only in the last
\* step of a run of check_rate_limit, so every value it takes is met in a
\* state between runs: the properties of decided calls are read there.
Settled == running = Nobody

Decisions == {<<c, i>> : c \in Callers, i \in 1..MaxCalls}

IsDecision(c, i) == i <= Len(H(c))

\* the earlier calls of the same caller for the route of call i
SameRouteBefore(h, i) == {j \in 1..(i - 1) : h[j].path = h[i].path}

\* those of them that were allowed
AdmittedBefore(h, i) == {j \in SameRouteBefore(h, i) : h[j].ok}

\* no earlier call of the caller was made under a window shorter than call i's
Quiet(h, i) ==
    \A j \in 1..(i - 1) : h[j].window_seconds >= h[i].window_seconds

\* call i and all earlier calls for its route lie within one window
OneWindow(h, i) ==
    \A j \in SameRouteBefore(h, i) : h[i].t - h[j].t < h[i].window_seconds

\* C1: from an empty history, while all calls of a client for a route lie
\* within window_seconds, each of the first max_requests calls is allowed and
\* every further one is rejected (the client having made no call under a
\* shorter window).
C1_FirstAllowedThenRejected ==
    Settled =>
        \A d \in Decisions :
            LET c == d[1]
                i == d[2]
                h == H(c)
                n == Cardinality(SameRouteBefore(h, i)) + 1
            IN  (IsDecision(c, i) /\ OneWindow(h, i)) =>
                    /\ n <= h[i].max_requests => h[i].ok
                    /\ (n > h[i].max_requests /\ Quiet(h, i)) => ~h[i].ok

\* two calls were allowed and the third, in the same window, was rejected
C1_Witness ==
    \E d \in Decisions :
        LET c == d[1]
            i == d[2]
            h == H(c)
        IN  /\ IsDecision(c, i)
            /\ OneWindow(h, i)
            /\ Quiet(h, i)
            /\ h[i].max_requests = 2
            /\ Cardinality(AdmittedBefore(h, i)) = 2
            /\ ~h[i].ok

\* the calls of caller c for route r, in the order decided
RouteCalls(c, r) ==
    LET on(e) == e.path = r IN SelectSeq(H(c), on)

QuietRoute(c, r) ==
    \A j \in 1..Len(H(c)) :
        H(c)[j].window_seconds >= PolicyFor(r).window_seconds

Allowed(calls) == Cardinality({j \in 1..Len(calls) : calls[j].ok})

Rejected(calls) == Cardinality({j \in 1..Len(calls) : ~calls[j].ok})

\* C2: when 2 * max_requests calls of one client for one route, made within
\* one window from an empty history, have been decided, in whatever order
\* the pending calls were run, exactly max_requests of them were allowed and
\* exactly max_requests rejected.
C2_NoOverAdmission ==
    Settled =>
        \A c \in Callers, r \in Routes :
            LET calls == RouteCalls(c, r)
                n == Len(calls)
            IN  (/\ n = 2 * PolicyFor(r).max_requests
                 /\ calls[n].t - calls[1].t < PolicyFor(r).window_seconds
                 /\ QuietRoute(c, r)) =>
                    /\ Allowed(calls) = PolicyFor(r).max_requests
                    /\ Rejected(calls) = PolicyFor(r).max_requests

\* 2 * max_requests calls were pending together and have all been decided
C2_Witness ==
    \E c \in Callers, r \in Routes :
        LET calls == RouteCalls(c, r)
            n == Len(calls)
        IN  /\ n = 2 * PolicyFor(r).max_requests
            /\ calls[n].t - calls[1].t < PolicyFor(r).window_seconds
            /\ QuietRoute(c, r)
            /\ \A j \in 1..(n - 1) : calls[j].contended

\* C3: a call is allowed when every earlier call of the client for the route
\* is more than window_seconds old, and it is rejected while max_requests
\* allowed calls are less than window_seconds old (the client having made no
\* call under a shorter window).
C3_WindowSlides ==
    Settled =>
        \A d \in Decisions :
            LET c == d[1]
                i == d[2]
                h == H(c)
                win == h[i].window_seconds
                recent == {j \in AdmittedBefore(h, i) : h[i].t - h[j].t < win}
            IN  IsDecision(c, i) =>
                    /\ (\A j \in SameRouteBefore(h, i) : h[i].t - h[j].t > win)
                           => h[i].ok
                    /\ (Quiet(h, i) /\ Cardinality(recent) >= h[i].max_requests)
                           => ~h[i].ok

\* a client was rejected at its limit, waited for more than the window and
\* was allowed again
C3_Witness ==
    \E d \in Decisions :
        LET c == d[1]
            i == d[2]
            h == H(c)
        IN  /\ IsDecision(c, i)
            /\ h[i].ok
            /\ \E j \in SameRouteBefore(h, i) : ~h[j].ok
            /\ \A j \in SameRouteBefore(h, i) :
                   h[i].t - h[j].t > h[i].window_seconds

\* the allowed calls of caller c for route r stamped within (lo, lo + win]
AllowedWithin(c, r, lo, win) ==
    {j \in 1..Len(H(c)) :
        /\ H(c)[j].path = r
        /\ H(c)[j].ok
        /\ lo < H(c)[j].t
        /\ H(c)[j].t <= lo + win}

\* the times just before an allowed call: a window holding more than
\* max_requests allowed calls can be moved forward to start at one of them
WindowStarts(c, r) ==
    {H(c)[j].t - 1 : j \in {k \in 1..Len(H(c)) : H(c)[k].path = r /\ H(c)[k].ok}}

\* C4: for a client and a route under one policy, no interval
\* (t, t + window_seconds] holds the timestamps of more than max_requests
\* allowed calls.
C4_NoBurst ==
    Settled =>
        \A c \in Callers, r \in Routes :
            QuietRoute(c, r) =>
                \A lo \in WindowStarts(c, r) :
                    Cardinality(AllowedWithin(c, r, lo, PolicyFor(r).window_seconds))
                        <= PolicyFor(r).max_requests

\* allowed calls on both sides of a multiple of the window, one window apart
C4_Witness ==
    \E c \in Callers, r \in Routes :
        /\ QuietRoute(c, r)
        /\ \E j, k \in 1..Len(H(c)) :
              /\ H(c)[j].path = r /\ H(c)[j].ok
              /\ H(c)[k].path = r /\ H(c)[k].ok
              /\ H(c)[k].t - H(c)[j].t = PolicyFor(r).window_seconds
              /\ H(c)[j].t % PolicyFor(r).window_seconds # 0
              /\ \E m \in 1..Len(H(c)) :
                    H(c)[m].path = r /\ ~H(c)[m].ok /\ j < m /\ m < k

\* the step in which call p is decided, and its two outcomes
DecidedStep(p) == pc[p] = "pruned" /\ pc'[p] # "pruned"

LastOf(h) == h[Len(h)]

RejectedStep(p) == DecidedStep(p) /\ ~LastOf(history'[request[p].client]).ok

AdmittedStep(p) == DecidedStep(p) /\ LastOf(history'[request[p].client]).ok

\* C5: a rejected call records nothing: the map, and with it the client's
\* list as pruning left it, is the same after the rejection.
C5_RejectRecordsNothing ==
    [][\A p \in Procs : RejectedStep(p) => requests' = requests]_vars

\* a call was rejected, and the client's list holds only the allowed one
C5_Witness ==
    \E c \in Hosts :
        /\ Len(H(c)) = 2
        /\ H(c)[1].ok
        /\ ~H(c)[2].ok
        /\ H(c)[1].path = "/login"
        /\ H(c)[2].path = "/login"
        /\ c \in DOMAIN requests
        /\ Len(requests[c]) = 1

\* the earlier allowed calls for the route of call i that are newer than
\* t - window_seconds
Counted(h, i) ==
    {j \in AdmittedBefore(h, i) : h[j].t > h[i].t - h[i].window_seconds}

\* the earlier allowed calls of the caller for other routes, newer than that
CountedElsewhere(h, i) ==
    {j \in 1..(i - 1) :
        /\ h[j].path # h[i].path
        /\ h[j].ok
        /\ h[j].t > h[i].t - h[i].window_seconds}

\* C6: a call is rejected only when max_requests allowed calls of the client
\* for the same route are inside the window, whatever the client sent to
\* other routes; and an allowed call appends exactly the entry (now, route).
C6_CountsOwnRouteOnly ==
    /\ [](\A d \in Decisions :
            LET c == d[1]
                i == d[2]
                h == H(c)
            IN  (IsDecision(c, i) /\ ~h[i].ok) =>
                    Cardinality(Counted(h, i)) >= h[i].max_requests)
    /\ [][\A p \in Procs :
            AdmittedStep(p) =>
                /\ client_ip[p] \in DOMAIN requests
                /\ requests' =
                       [requests EXCEPT ![client_ip[p]] =
                           Append(@, <<current_time[p], endpoint[p]>>)]]_vars

\* a call was allowed although the client had max_requests or more requests
\* to another route inside the window
C6_Witness ==
    \E d \in Decisions :
        LET c == d[1]
            i == d[2]
            h == H(c)
        IN  /\ IsDecision(c, i)
            /\ h[i].ok
            /\ Cardinality(CountedElsewhere(h, i)) >= h[i].max_requests

\* the earlier allowed calls for the route of call i stamped in
\* [t - window_seconds, t]
CountedClosed(h, i) ==
    {j \in AdmittedBefore(h, i) : h[j].t >= h[i].t - h[i].window_seconds}

\* C7 as claimed: the count is over [now - window_seconds, now], so a call
\* is rejected when max_requests allowed calls lie in that closed interval.
C7_ClosedWindow ==
    \A d \in Decisions :
        LET c == d[1]
            i == d[2]
            h == H(c)
        IN  (/\ IsDecision(c, i)
             /\ Quiet(h, i)
             /\ Cardinality(CountedClosed(h, i)) >= h[i].max_requests)
                => ~h[i].ok

\* C7 as amended: the count is over (now - window_seconds, now]: an entry
\* stamped exactly now - window_seconds is discarded and not counted, so a
\* call is allowed when fewer than max_requests allowed calls are newer than
\* now - window_seconds, and rejected otherwise.
C7_HalfOpenWindow ==
    Settled =>
        \A d \in Decisions :
            LET c == d[1]
                i == d[2]
                h == H(c)
            IN  IsDecision(c, i) =>
                    /\ Cardinality(Counted(h, i)) < h[i].max_requests => h[i].ok
                    /\ (Quiet(h, i) /\ h[i].ok)
                           => Cardinality(Counted(h, i)) < h[i].max_requests

\* a call was allowed while max_requests allowed calls were exactly
\* window_seconds old
C7_Witness ==
    \E d \in Decisions :
        LET c == d[1]
            i == d[2]
            h == H(c)
        IN  /\ IsDecision(c, i)
            /\ Quiet(h, i)
            /\ h[i].ok
            /\ Cardinality(CountedClosed(h, i)) >= h[i].max_requests
            /\ \A j \in CountedClosed(h, i) :
                   h[j].t = h[i].t - h[i].window_seconds

\* C8: requests without a client address are all kept under the key
\* "unknown", never under an empty key, and are limited like any client: no
\* such request is allowed while max_requests of them for the route are
\* inside the window.
C8_UnknownClientsShareBucket ==
    /\ "" \notin DOMAIN requests
    /\ \A p \in Procs :
           (pc[p] \in {"started", "locked", "pruned"}
                /\ request[p].client = NoClient)
               => client_ip[p] = "unknown"
    /\ Settled =>
           \A i \in 1..Len(H(NoClient)) :
               LET h == H(NoClient)
               IN  /\ (Quiet(h, i)
                          /\ Cardinality(Counted(h, i)) >= h[i].max_requests)
                          => ~h[i].ok
                   /\ (h[i].ok /\ h[i].t = now /\ i = Len(h))
                          => /\ "unknown" \in DOMAIN requests
                             /\ LastOf(requests["unknown"])
                                    = <<h[i].t, h[i].path>>

\* two requests without a client address were allowed and the third rejected
C8_Witness ==
    LET h == H(NoClient)
    IN  /\ Len(h) = 3
        /\ h[1].ok /\ h[2].ok /\ ~h[3].ok
        /\ Len(requests["unknown"]) = 2

\* C9: every rejection is an HTTP 429 that reports the max_requests and the
\* window_seconds the call was made with, and those are the limits that
\* were enforced: max_requests allowed calls lie inside the reported window.
C9_RejectionReportsPolicy ==
    Settled =>
        \A d \in Decisions :
            LET c == d[1]
                i == d[2]
                h == H(c)
                exc == h[i].raised
            IN  IsDecision(c, i) =>
                    /\ h[i].ok => exc = NoException
                    /\ ~h[i].ok =>
                           /\ exc.status_code = HTTP_429_TOO_MANY_REQUESTS
                           /\ exc.max_requests = PolicyFor(h[i].path).max_requests
                           /\ exc.window_seconds = PolicyFor(h[i].path).window_seconds
                           /\ Cardinality({j \in AdmittedBefore(h, i) :
                                  h[j].t > h[i].t - exc.window_seconds})
                                  >= exc.max_requests

\* the second login of a client inside the window was answered with 429
C9_Witness ==
    \E c \in Hosts :
        /\ Len(H(c)) >= 2
        /\ H(c)[2].path = "/login"
        /\ H(c)[2].raised.status_code = HTTP_429_TOO_MANY_REQUESTS
        /\ H(c)[2].raised.max_requests = AuthPolicy.max_requests
        /\ H(c)[2].raised.window_seconds = AuthPolicy.window_seconds

\* the entries of a list stamped after the cutoff, in the order of the list
After(list, cutoff) ==
    LET newer(e) == e[1] > cutoff IN SelectSeq(list, newer)

AllOlder(list, cutoff) == \A k \in 1..Len(list) : list[k][1] < cutoff

\* C10: when the loop of cleanup_old_entries has run, every record whose
\* entries were all older than max_age is gone from the map, no record of
\* the map is empty, and every record that had an entry newer than max_age
\* is in the map with those entries in their order.
C10_SweepRemovesOldRecords ==
    sweep_pc = "swept" =>
        /\ \A ip \in DOMAIN before :
               AllOlder(before[ip], cutoff_time) => ip \notin DOMAIN requests
        /\ \A ip \in DOMAIN requests : requests[ip] # <<>>
        /\ \A ip \in DOMAIN before :
               After(before[ip], cutoff_time) # <<>> =>
                   /\ ip \in DOMAIN requests
                   /\ After(requests[ip], cutoff_time)
                          = After(before[ip], cutoff_time)

\* a sweep removed one record whole and kept the newer part of another
C10_Witness ==
    /\ sweep_pc = "swept"
    /\ \E ip \in DOMAIN before :
           /\ before[ip] # <<>>
           /\ AllOlder(before[ip], cutoff_time)
           /\ ip \notin DOMAIN requests
    /\ \E ip \in DOMAIN requests :
           /\ Len(requests[ip]) < Len(before[ip])
           /\ requests[ip] = After(before[ip], cutoff_time)

\* the coroutines inside a with-block of the lock
InCritical ==
    {p \in Procs : pc[p] \in {"locked", "pruned"}}
        \cup (IF sweep_pc \in {"locked", "swept"} THEN {Sweeper} ELSE {})

\* C11: the prune-count-append sequence of check_rate_limit and the
\* prune-delete loop of cleanup_old_entries run under the one lock: a call
\* inside its critical section holds the lock, so no two calls (check/check
\* or check/sweep) are inside at once, and the lock is free when none is.
C11_MutualExclusion ==
    /\ \A c \in InCritical : lock = c
    /\ Cardinality(InCritical) <= 1
    /\ InCritical = {} => lock = Nobody

\* a sweep is inside its critical section, and so was a check, each while
\* a call of check_rate_limit was pending
C11_Witness ==
    /\ sweep_pc = "swept"
    /\ \E p \in Procs : pc[p] = "ready"
    /\ \E c \in Callers : Len(H(c)) >= 1 /\ H(c)[1].contended

\* ------------------------------------------------ credential properties
\* the latest validation, when there is one
V == validated[1]

\* the latest issuance, when there is one
I == issued[1]

\* a ttl was passed and is positive
PositiveTtl(delta) == delta # <<>> /\ delta[1] > 0

\* the latest validation is of the token of the latest issuance, which was
\* made from claims with a subject and a positive ttl, and is not later
\* than now + ttl of the issuance
RoundTrip ==
    /\ issued # <<>>
    /\ validated # <<>>
    /\ V.token = I.token
    /\ "sub" \in DOMAIN I.data
    /\ PositiveTtl(I.expires_delta)
    /\ I.at <= V.at
    /\ V.at < I.at + I.expires_delta[1]

\* C13 as stated: validating an issued token before it expires succeeds and
\* returns every claim of the issued mapping with the value it was issued
\* with, the expiration claim being the only addition.
C13_RoundTripKeepsEveryClaim ==
    RoundTrip =>
        /\ V.result.ok
        /\ DOMAIN V.result.payload = (DOMAIN I.data) \cup {"exp"}
        /\ \A n \in DOMAIN I.data : V.result.payload[n] = I.data[n]

\* C13, amended: validating an issued token before it expires succeeds and
\* returns the claims of the issued mapping and exp; every claim other than
\* exp has the value it was issued with, and exp is now + ttl of the
\* issuance, in place of any exp the mapping carried.
C13_RoundTrip ==
    RoundTrip =>
        /\ V.result.ok
        /\ DOMAIN V.result.payload = (DOMAIN I.data) \cup {"exp"}
        /\ \A n \in (DOMAIN I.data) \ {"exp"} :
               V.result.payload[n] = I.data[n]
        /\ V.result.payload["exp"] = I.at + I.expires_delta[1]

\* a token made from a subject, a role and an expiration of the caller's
\* came back, a second after it was issued, with the subject and the role
C13_Witness ==
    /\ RoundTrip
    /\ I.data = [sub |-> "u1", role |-> "admin", exp |-> 1]
    /\ V.at = I.at + 1
    /\ V.result.ok
    /\ V.result.payload["sub"] = "u1"
    /\ V.result.payload["role"] = "admin"

\* C14: a validation of a token that carries an expiration succeeds only
\* if the signature verifies under the service secret and the expiration is
\* strictly later than the time of the validation.
C14_ValidOnlyBeforeExpiry ==
    (validated # <<>> /\ V.result.ok /\ "exp" \in DOMAIN V.token.payload) =>
        /\ Verifies(V.token, JWT_SECRET)
        /\ V.token.payload["exp"] > V.at

\* C15: a well-formed token whose signature was made under a key other than
\* the service secret is rejected, whatever its claims and expiration.
C15_ForeignSecretRejected ==
    (/\ validated # <<>>
     /\ V.token.wellformed
     /\ \E key \in {ForeignSecret, DefaultSecret, "", "k1"} :
            /\ key # JWT_SECRET
            /\ V.token.signature = Sign(V.token.payload, key)) =>
        ~V.result.ok

\* an unexpired token with a subject, signed by another issuer, was rejected
C15_Witness ==
    /\ validated # <<>>
    /\ V.token.wellformed
    /\ V.token.signature = Sign(V.token.payload, ForeignSecret)
    /\ "sub" \in DOMAIN V.token.payload
    /\ V.token.payload["exp"] > V.at
    /\ ~V.result.ok

\* C16: the expiration claim of an issued token is now + ttl for every ttl
\* passed, a zero ttl included, and now + 15 minutes when none is passed.
C16_ExpiryIsNowPlusTtl ==
    issued # <<>> =>
        I.token.payload["exp"] =
            IF I.expires_delta = <<>>
            THEN I.at + DefaultExpireMinutes * 60
            ELSE I.at + I.expires_delta[1]

\* C17: while the service secret is empty or unset no token is issued.
C17_NoTokenWithoutSecret ==
    (environ = <<>> \/ environ = <<"">>) => issued = <<>>

\* C18: a token that is malformed, or whose signature does not verify under
\* the service secret, or whose expiration is in the past or missing, is
\* rejected.
C18_BadTokensRejected ==
    (/\ validated # <<>>
     /\ \/ ~V.token.wellformed
        \/ ~Verifies(V.token, JWT_SECRET)
        \/ "exp" \notin DOMAIN V.token.payload
        \/ V.token.payload["exp"] < V.at) =>
        ~V.result.ok

\* the stored hashes made from password p
HashesOf(p) == {s \in stored : s.password = p}

\* C19: verify_password(p, h) is true exactly when h was made by
\* get_password_hash from p: it is true of every hash of p whatever the
\* salt, false of every hash of another password, and two hashes of one
\* password made with different salts are different values.  A hash does
\* not contain the password it was made from, only its digest.
C19_VerifyIffHashOfSame ==
    /\ verified # <<>> =>
           (verified[1].result <=>
                \E s \in HashesOf(verified[1].plain_password) :
                    s.hash = verified[1].hashed_password)
    /\ \A a \in stored, p \in Passwords :
           verify_password(p, a.hash) <=> (p = a.password)
    /\ \A a, b \in stored :
           (a.password = b.password /\ a.salt # b.salt) => a.hash # b.hash
    /\ \A a \in stored :
           a.hash.checksum = <<"bcrypt", a.salt, Sha256Hex(a.password)>>

\* one password was hashed twice with different salts, and the latest
\* verification, of that password against one of the hashes, succeeded
C19_Witness ==
    /\ verified # <<>>
    /\ verified[1].result
    /\ \E a, b \in HashesOf(verified[1].plain_password) :
           /\ a.salt # b.salt
           /\ a.hash # b.hash
           /\ verified[1].hashed_password = b.hash

\* C20: every rejection by get_current_user is the same exception: status
\* 401, one message and one set of headers, whatever check failed.
C20_UniformRejection ==
    (validated # <<>> /\ ~V.result.ok) =>
        /\ V.result.raised = credentials_exception
        /\ V.result.raised.status_code = HTTP_401_UNAUTHORIZED

\* an expired token of the service was rejected with that exception
C20_Witness ==
    /\ validated # <<>>
    /\ issued # <<>>
    /\ V.token = I.token
    /\ V.token.payload["exp"] < V.at
    /\ ~V.result.ok
    /\ V.result.raised.detail = "Could not validate credentials"

\* the call of check_rate_limit made for the request p is serving
Decision(p) == LastOf(H(request[p].client))

\* C12: on the login route the endpoint runs, and a token is issued, only
\* for a request that rate_limit_auth has allowed: a request at or past its
\* endpoint was admitted under the login policy at the current time, and a
\* response carrying a token belongs to such a request.
C12_AdmissionBeforeToken ==
    /\ \A p \in Procs :
           pc[p] \in {"endpoint", "responded"} =>
               /\ Len(H(request[p].client)) >= 1
               /\ Decision(p).ok
               /\ Decision(p).path = "/login"
               /\ Decision(p).max_requests = AuthPolicy.max_requests
               /\ Decision(p).t = now
    /\ response # <<>> =>
           \E p \in Procs : running = p /\ pc[p] = "responded"
    /\ \A p \in Procs :
           pc[p] = "responded" <=> (running = p /\ response # <<>>)

\* a login was rejected by the limiter, and a later one, allowed, is being
\* answered with a token
C12_Witness ==
    /\ response # <<>>
    /\ response[1].status_code = HTTP_200_OK
    /\ response[1].access_token # <<>>
    /\ \E p \in Procs :
           /\ pc[p] = "responded"
           /\ \E i \in 1..Len(H(request[p].client)) :
                  /\ H(request[p].client)[i].path = "/login"
                  /\ ~H(request[p].client)[i].ok

\* C21: an unexpected exception raised while the login flow signs the token
\* is answered with a server error, never with 401 or 403; a 401 answers
\* only an authentication error.
C21_InternalErrorIsServerError ==
    response # <<>> =>
        /\ (response[1].raised \notin {"", "AuthenticationError"})
               => response[1].status_code = HTTP_500_INTERNAL_SERVER_ERROR
        /\ response[1].status_code = HTTP_401_UNAUTHORIZED
               => response[1].raised = "AuthenticationError"

\* the timestamps along a list never decrease
Ordered(list) ==
    \A k \in 1..(Len(list) - 1) : list[k][1] <= list[k + 1][1]

\* C22: in every reachable state, whatever the interleaving of
\* check_rate_limit and cleanup_old_entries, each client's list is ordered
\* oldest first: its timestamps are non-decreasing.
C22_ListsOrdered ==
    \A ip \in DOMAIN requests : Ordered(requests[ip])

\* a list holds entries of different times while a sweep and a check have
\* both run over it
C22_Witness ==
    /\ sweep_pc = "swept"
    /\ \E ip \in DOMAIN requests :
           /\ Len(requests[ip]) >= 2
           /\ requests[ip][1][1] < requests[ip][2][1]

\* list a is the beginning of list b
IsPrefix(a, b) == Len(a) <= Len(b) /\ SubSeq(b, 1, Len(a)) = a

\* the list of client ip after the step
RecordAfter(ip) == IF ip \in DOMAIN requests' THEN requests'[ip] ELSE <<>>

\* C23: an entry appended for an allowed request stands.  In every step
\* each client's list is kept whole (and at most extended), unless the
\* step is the pruning of a check of that client, or the loop of a sweep,
\* and then exactly the entries not newer than the cutoff of that call
\* are removed.  No other step (a rejection, a check of another client,
\* the endpoint failing after the admission) removes an entry.
C23_EntryStands ==
    [][\A ip \in DOMAIN requests :
          \/ IsPrefix(requests[ip], RecordAfter(ip))
          \/ \E p \in Procs :
                 /\ pc[p] = "locked"
                 /\ pc'[p] = "pruned"
                 /\ client_ip[p] = ip
                 /\ RecordAfter(ip) = Newer(requests[ip], Cutoff(p))
          \/ /\ sweep_pc = "locked"
             /\ sweep_pc' = "swept"
             /\ RecordAfter(ip) = Newer(requests[ip], cutoff_time)]_vars

\* a login was allowed and recorded, its endpoint then failed, and the
\* entry is still the last of the client's list
C23_Witness ==
    /\ response # <<>>
    /\ response[1].status_code = HTTP_401_UNAUTHORIZED
    /\ \E p \in Procs :
           /\ pc[p] = "responded"
           /\ ClientIp(request[p]) \in DOMAIN requests
           /\ LastOf(requests[ClientIp(request[p])]) = <<now, "/login">>

\* C24: policies applied to one client do not interfere: whatever calls
\* the client made to other routes, under whatever policy, a call for a
\* route is rejected while max_requests allowed calls for that route are
\* inside the window of the route's own policy.
C24_PoliciesDoNotInterfere ==
    Settled =>
        \A d \in Decisions :
            LET c == d[1]
                i == d[2]
                h == H(c)
            IN  (IsDecision(c, i)
                     /\ Cardinality(Counted(h, i)) >= h[i].max_requests)
                    => ~h[i].ok

\* the clients other than the one of call p that have a record before or
\* after the step
Others(p) == ((DOMAIN requests) \cup (DOMAIN requests')) \ {client_ip[p]}

\* C25: a step of check_rate_limit for client X, from the lock to the
\* decision, leaves the record of every other client as it was (none is
\* changed, created or deleted), and the call is allowed exactly when X's own
\* record holds fewer than max_requests entries for the route.
C25_OtherClientsUntouched ==
    [][\A p \in Procs :
          (running = p /\ pc[p] \in {"locked", "pruned"}) =>
              /\ \A ip \in Others(p) :
                     /\ ip \in DOMAIN requests
                     /\ ip \in DOMAIN requests'
                     /\ requests'[ip] = requests[ip]
              /\ DecidedStep(p) =>
                     LastOf(history'[request[p].client]).ok
                         = (Len(EndpointRequests(requests[client_ip[p]],
                                                 endpoint[p]))
                                < policy[p].max_requests)]_vars

\* a call is about to be decided while another client has a record
C25_Witness ==
    \E p \in Procs :
        /\ pc[p] = "pruned"
        /\ requests[client_ip[p]] # <<>>
        /\ \E ip \in (DOMAIN requests) \ {client_ip[p]} : requests[ip] # <<>>

\* The run without cleanup_old_entries: the record of a caller after each of
\* its calls h[1..n], when only the calls themselves prune it.
Replay(h) ==
    LET rec[n \in 0..Len(h)] ==
            IF n = 0 THEN <<>>
            ELSE LET e == h[n]
                     kept == Newer(rec[n - 1], e.t - e.window_seconds)
                 IN  IF Len(EndpointRequests(kept, e.path)) < e.max_requests
                     THEN Append(kept, <<e.t, e.path>>)
                     ELSE kept
    IN  rec

\* the result of call i of h in the run without cleanup_old_entries
ReplayOk(h, i) ==
    Len(EndpointRequests(Newer(Replay(h)[i - 1],
                               h[i].t - h[i].window_seconds),
                         h[i].path))
        < h[i].max_requests

\* every max_age in use is at least as long as every policy window
SweepKeepsWindows ==
    \A a \in MaxAgeHours : \A pol \in Policies : Hours(a) >= pol.window_seconds

\* C26: with max_age at least every policy window, every call gets, in a run
\* with sweeps interleaved at arbitrary points, the result it gets in the run
\* of the same calls without sweeps; and once a call has pruned the record
\* of its client, the record is the one of the run without sweeps.
C26_SweepTransparent ==
    SweepKeepsWindows =>
        /\ Settled =>
               \A d \in Decisions :
                   IsDecision(d[1], d[2]) =>
                       H(d[1])[d[2]].ok = ReplayOk(H(d[1]), d[2])
        /\ \A p \in Procs :
               pc[p] = "pruned" =>
                   LET h == H(request[p].client)
                   IN  requests[client_ip[p]]
                           = Newer(Replay(h)[Len(h)], Cutoff(p))

\* a call is about to be decided on a record from which a sweep has removed
\* entries that the run without sweeps still holds
C26_Witness ==
    /\ SweepKeepsWindows
    /\ \E p \in Procs :
           LET h == H(request[p].client)
           IN  /\ pc[p] = "locked"
               /\ Replay(h)[Len(h)] # <<>>
               /\ Get(requests, client_ip[p]) # Replay(h)[Len(h)]

\* call p has been made and has not yet been allowed or rejected
Pending(p) == pc[p] \in {"ready", "started", "locked", "pruned"}

\* C27: the step that allows or rejects a call, and the last step of a
\* sweep, leave the lock free, and between two runs nobody holds it; under
\* the scheduling of the event loop every call that has been made is
\* eventually allowed or rejected, and a lock that is held is eventually free.
C27_LockReleased ==
    /\ [](Settled => lock = Nobody)
    /\ [][/\ \A p \in Procs : DecidedStep(p) => lock' = Nobody
          /\ (sweep_pc = "swept" /\ sweep_pc' # "swept") => lock' = Nobody]_vars
    /\ \A p \in Procs : Pending(p) ~> ~Pending(p)
    /\ (lock # Nobody) ~> (lock = Nobody)

\* a caller whose call was rejected has had a later call decided, and the
\* lock is free
C27_Witness ==
    /\ Settled
    /\ lock = Nobody
    /\ \E c \in Callers :
           \E i \in 1..(Len(H(c)) - 1) : ~H(c)[i].ok

====
